---- MODULE Spec2Model ----
(***************************************************************************)
(* Model of the Jira tickets dashboard's normalization pipeline:           *)
(*   scripts/normalize_jira_csv.py  (parse_date, first_sprint_value,       *)
(*                                   normalize_row, read_csv_headers, main)*)
(*   scripts/sync_jira_to_sheet.py  (issue_to_row, main)                   *)
(* A Python str is a sequence of one-character strings, so that strip,     *)
(* slicing, membership and strptime's matching are computed, not assumed.  *)
(***************************************************************************)
EXTENDS Integers, Sequences, FiniteSets, TLC

(***************************************************************************)
(* Characters and str operations                                           *)
(***************************************************************************)

\* The characters str.strip() removes and strptime's \s matches.
Whitespace == {" ", "\t", "\n"}

DigitChars == <<"0", "1", "2", "3", "4", "5", "6", "7", "8", "9">>

IsDigit(c) == \E d \in 1..10 : DigitChars[d] = c

DigitVal(c) == (CHOOSE d \in 1..10 : DigitChars[d] = c) - 1

\* int(s) for a str of decimal digits; int() itself skips surrounding blanks
\* (the "%d" group may hold " 7").
RECURSIVE ToInt(_)
ToInt(s) ==
    IF s = <<>> THEN 0
    ELSE IF s[Len(s)] \in Whitespace THEN ToInt(SubSeq(s, 1, Len(s) - 1))
    ELSE IF s[1] \in Whitespace THEN ToInt(Tail(s))
    ELSE 10 * ToInt(SubSeq(s, 1, Len(s) - 1)) + DigitVal(s[Len(s)])

\* str.lower() on the letters the month and AM/PM names are made of.
LowerChar(c) ==
    CASE c = "A" -> "a" [] c = "B" -> "b" [] c = "C" -> "c" [] c = "D" -> "d"
      [] c = "E" -> "e" [] c = "F" -> "f" [] c = "G" -> "g" [] c = "J" -> "j"
      [] c = "L" -> "l" [] c = "M" -> "m" [] c = "N" -> "n" [] c = "O" -> "o"
      [] c = "P" -> "p" [] c = "R" -> "r" [] c = "S" -> "s" [] c = "T" -> "t"
      [] c = "U" -> "u" [] c = "V" -> "v" [] c = "Y" -> "y"
      [] OTHER -> c

Lower(s) == [i \in 1..Len(s) |-> LowerChar(s[i])]

RECURSIVE LStrip(_)
LStrip(s) == IF s # <<>> /\ s[1] \in Whitespace THEN LStrip(Tail(s)) ELSE s

RECURSIVE RStrip(_)
RStrip(s) ==
    IF s # <<>> /\ s[Len(s)] \in Whitespace
    THEN RStrip(SubSeq(s, 1, Len(s) - 1))
    ELSE s

\* str.strip()
Strip(s) == RStrip(LStrip(s))

\* c in s
Contains(s, c) == \E i \in 1..Len(s) : s[i] = c

\* s[:n]
Prefix(s, n) == SubSeq(s, 1, IF Len(s) < n THEN Len(s) ELSE n)

\* "%02d" % n and "%04d" % n
Pad2(n) == <<DigitChars[((n \div 10) % 10) + 1], DigitChars[(n % 10) + 1]>>

Pad4(n) == Pad2(n \div 100) \o Pad2(n % 100)

(***************************************************************************)
(* datetime.strptime in the C locale (the script never calls setlocale)    *)
(***************************************************************************)

\* calendar.month_abbr, lower-cased: the alternatives of the %b group.
MonthAbbr ==
    << <<"j","a","n">>, <<"f","e","b">>, <<"m","a","r">>, <<"a","p","r">>,
       <<"m","a","y">>, <<"j","u","n">>, <<"j","u","l">>, <<"a","u","g">>,
       <<"s","e","p">>, <<"o","c","t">>, <<"n","o","v">>, <<"d","e","c">> >>

Directives == {"%d", "%b", "%y", "%Y", "%m", "%H", "%I", "%M", "%S", "%f", "%p"}

Range(f) == {f[i] : i \in DOMAIN f}

AllDigits(sub) == \A i \in 1..Len(sub) : IsDigit(sub[i])

\* n, n-1, ..., 1
RECURSIVE DownTo1(_)
DownTo1(n) == IF n <= 0 THEN <<>> ELSE <<n>> \o DownTo1(n - 1)

\* The lengths one item of a format may consume, in the order the regular
\* expression's alternatives and greedy repeats try them.
ItemLens(item, remaining) ==
    CASE item \in {"%d", "%m", "%H", "%I", "%M", "%S"} -> <<2, 1>>
      [] item \in {"%y", "%p"} -> <<2>>
      [] item = "%Y" -> <<4>>
      [] item = "%b" -> <<3>>
      [] item = "%f" -> <<6, 5, 4, 3, 2, 1>>
      [] item = " " -> DownTo1(remaining)
      [] OTHER -> <<1>>

\* Whether sub is a text the item's regular expression accepts.
ItemOk(item, sub) ==
    LET n == Len(sub)
        a == sub[1]
        b == sub[2]
        NonZero(c) == IsDigit(c) /\ c # "0"
    IN CASE item = "%d" ->
              \/ n = 2 /\ a = "3" /\ b \in {"0", "1"}
              \/ n = 2 /\ a \in {"1", "2"} /\ IsDigit(b)
              \/ n = 2 /\ a = "0" /\ NonZero(b)
              \/ n = 1 /\ NonZero(a)
              \/ n = 2 /\ a = " " /\ NonZero(b)
         [] item \in {"%m", "%I"} ->
              \/ n = 2 /\ a = "1" /\ b \in {"0", "1", "2"}
              \/ n = 2 /\ a = "0" /\ NonZero(b)
              \/ n = 1 /\ NonZero(a)
         [] item = "%H" ->
              \/ n = 2 /\ a = "2" /\ b \in {"0", "1", "2", "3"}
              \/ n = 2 /\ a \in {"0", "1"} /\ IsDigit(b)
              \/ n = 1 /\ IsDigit(a)
         [] item = "%M" ->
              \/ n = 2 /\ a \in {"0", "1", "2", "3", "4", "5"} /\ IsDigit(b)
              \/ n = 1 /\ IsDigit(a)
         [] item = "%S" ->
              \/ n = 2 /\ a = "6" /\ b \in {"0", "1"}
              \/ n = 2 /\ a \in {"0", "1", "2", "3", "4", "5"} /\ IsDigit(b)
              \/ n = 1 /\ IsDigit(a)
         [] item \in {"%y", "%Y", "%f"} -> AllDigits(sub)
         [] item = "%b" -> Lower(sub) \in Range(MonthAbbr)
         [] item = "%p" -> Lower(sub) \in {<<"a", "m">>, <<"p", "m">>}
         [] item = " " -> \A i \in 1..n : sub[i] \in Whitespace
         [] OTHER -> sub = <<item>>

NoMatch == [ok |-> FALSE]

RECURSIVE MatchFrom(_, _, _, _)
RECURSIVE TryLens(_, _, _, _, _)

\* re.match of the format's regular expression from item k at position pos:
\* the first match in backtracking order, with the text of each group.
MatchFrom(fmt, k, s, pos) ==
    IF k > Len(fmt)
    THEN [ok |-> TRUE, end |-> pos, groups |-> <<>>]
    ELSE TryLens(fmt, k, s, pos, ItemLens(fmt[k], Len(s) - pos + 1))

TryLens(fmt, k, s, pos, lens) ==
    IF lens = <<>> THEN NoMatch
    ELSE LET n == Head(lens)
             sub == SubSeq(s, pos, pos + n - 1)
             rest == IF pos + n - 1 <= Len(s) /\ ItemOk(fmt[k], sub)
                     THEN MatchFrom(fmt, k + 1, s, pos + n)
                     ELSE NoMatch
         IN IF rest.ok
            THEN [rest EXCEPT !.groups =
                     IF fmt[k] \in Directives
                     THEN <<[d |-> fmt[k], text |-> sub]>> \o @
                     ELSE @]
            ELSE TryLens(fmt, k, s, pos, Tail(lens))

\* found_dict: the text of directive d, or <<>> when the format has none.
Group(groups, d) ==
    IF \E i \in 1..Len(groups) : groups[i].d = d
    THEN groups[CHOOSE i \in 1..Len(groups) : groups[i].d = d].text
    ELSE <<>>

HasGroup(groups, d) == \E i \in 1..Len(groups) : groups[i].d = d

IsLeap(y) == (y % 4 = 0 /\ y % 100 # 0) \/ y % 400 = 0

DaysInMonth(y, m) ==
    IF m = 2 THEN (IF IsLeap(y) THEN 29 ELSE 28)
    ELSE IF m \in {4, 6, 9, 11} THEN 30 ELSE 31

\* The datetime the matched groups denote (defaults 1900-01-01 00:00:00).
FieldsOf(groups) ==
    LET yy == ToInt(Group(groups, "%y"))
        hI == ToInt(Group(groups, "%I"))
        pm == Lower(Group(groups, "%p")) = <<"p", "m">>
    IN [year |-> IF HasGroup(groups, "%Y") THEN ToInt(Group(groups, "%Y"))
                 ELSE IF HasGroup(groups, "%y")
                      THEN (IF yy <= 68 THEN 2000 + yy ELSE 1900 + yy)
                      ELSE 1900,
        month |-> IF HasGroup(groups, "%m") THEN ToInt(Group(groups, "%m"))
                  ELSE IF HasGroup(groups, "%b")
                       THEN CHOOSE m \in 1..12 :
                                MonthAbbr[m] = Lower(Group(groups, "%b"))
                       ELSE 1,
        day |-> IF HasGroup(groups, "%d") THEN ToInt(Group(groups, "%d")) ELSE 1,
        hour |-> IF HasGroup(groups, "%H") THEN ToInt(Group(groups, "%H"))
                 ELSE IF HasGroup(groups, "%I")
                      THEN (IF pm THEN (IF hI # 12 THEN hI + 12 ELSE hI)
                            ELSE (IF hI = 12 THEN 0 ELSE hI))
                      ELSE 0,
        minute |-> ToInt(Group(groups, "%M")),
        second |-> ToInt(Group(groups, "%S"))]

\* datetime.strptime(value, fmt): [ok |-> FALSE] stands for ValueError
\* (no match, unconverted data, or a field datetime() rejects).
strptime(value, fmt) ==
    LET found == MatchFrom(fmt, 1, value, 1)
    IN IF ~found.ok \/ found.end # Len(value) + 1 THEN NoMatch
       ELSE LET dt == FieldsOf(found.groups)
            IN IF /\ dt.year >= 1
                  /\ dt.day <= DaysInMonth(dt.year, dt.month)
                  /\ dt.second <= 59
               THEN [ok |-> TRUE, dt |-> dt]
               ELSE NoMatch

\* dt.strftime("%Y-%m-%d")
strftimeDate(dt) == Pad4(dt.year) \o <<"-">> \o Pad2(dt.month) \o <<"-">> \o Pad2(dt.day)

\* dt.strftime("%Y-%m-%d %H:%M:%S")
strftimeFull(dt) ==
    strftimeDate(dt) \o <<" ">> \o Pad2(dt.hour) \o <<":">> \o Pad2(dt.minute)
        \o <<":">> \o Pad2(dt.second)

(***************************************************************************)
(* normalize_jira_csv.py                                                   *)
(***************************************************************************)

OUTPUT_COLUMNS ==
    << "Summary", "Issue key", "Issue id", "Issue Type", "Status",
       "Project key", "Project name", "Priority", "Resolution", "Assignee",
       "Reporter", "Created", "Updated", "Resolved", "Due date", "Team Name",
       "Sprint", "Custom field (Produto)", "Status Category",
       "Status Category Changed" >>

DATE_FORMATS ==
    << <<"%d", "/", "%b", "/", "%y", " ", "%I", ":", "%M", " ", "%p">>,
       <<"%d", "/", "%b", ".", "/", "%y", " ", "%H", ":", "%M">>,
       <<"%d", "/", "%b", "/", "%y", " ", "%H", ":", "%M">>,
       <<"%Y", "-", "%m", "-", "%d", " ", "%H", ":", "%M", ":", "%S", ".", "%f">>,
       <<"%d", "/", "%b", ".", "/", "%y", " ", "%I", ":", "%M", " ", "%p">>,
       <<"%d", "/", "%b", "/", "%y">>,
       <<"%Y", "-", "%m", "-", "%d">> >>

\* The two formats of the last attempt, tried on value[:19].
FALLBACK_FORMATS ==
    << <<"%Y", "-", "%m", "-", "%d", " ", "%H", ":", "%M", ":", "%S">>,
       <<"%Y", "-", "%m", "-", "%d">> >>

\* Mutation: a value no format parses yields "" (as the docstring has it)
\* instead of the value.
RECURSIVE TryFallback_emptyOnFailure(_, _)
TryFallback_emptyOnFailure(value, i) ==
    IF i > Len(FALLBACK_FORMATS) THEN <<>>
    ELSE LET r == strptime(Prefix(value, 19), FALLBACK_FORMATS[i])
         IN IF r.ok
            THEN (IF Contains(value, " ") THEN strftimeFull(r.dt)
                  ELSE strftimeDate(r.dt))
            ELSE TryFallback_emptyOnFailure(value, i + 1)

\* The second loop of parse_date, from format i on.
RECURSIVE TryFallback(_, _)
TryFallback(value, i) ==
    IF i > Len(FALLBACK_FORMATS) THEN value
    ELSE LET r == strptime(Prefix(value, 19), FALLBACK_FORMATS[i])
         IN IF r.ok
            THEN (IF Contains(value, " ") THEN strftimeFull(r.dt)
                  ELSE strftimeDate(r.dt))
            ELSE TryFallback(value, i + 1)

\* The first loop of parse_date, from format i on.
RECURSIVE TryFormats(_, _)
TryFormats(value, i) ==
    IF i > Len(DATE_FORMATS) THEN TryFallback(value, 1)
    ELSE LET r == strptime(value, DATE_FORMATS[i])
         IN IF r.ok THEN strftimeFull(r.dt) ELSE TryFormats(value, i + 1)

\* Mutation: the truncated attempt is made before the loop over DATE_FORMATS.
parse_date_fallbackFirst(value) ==
    IF value = <<>> \/ Strip(value) = <<>> THEN <<>>
    ELSE LET v == Strip(value)
             fb == TryFallback(v, 1)
         IN IF fb # v THEN fb ELSE TryFormats(v, 1)

parse_date(value) ==
    IF value = <<>> \/ Strip(value) = <<>> THEN <<>>
    ELSE TryFormats(Strip(value), 1)


\* main, line 130
date_columns == {"Created", "Updated", "Resolved", "Due date", "Status Category Changed"}

\* A Python dict is the sequence of its items in insertion order:
\* d[k] = v replaces the value of a key it has and appends a new key.
DictSet(d, k, v) ==
    IF \E i \in 1..Len(d) : d[i].key = k
    THEN [i \in 1..Len(d) |-> IF d[i].key = k THEN [key |-> k, val |-> v] ELSE d[i]]
    ELSE Append(d, [key |-> k, val |-> v])

\* list(d): the keys in order
Keys(d) == [i \in 1..Len(d) |-> d[i].key]

\* d.get(k, default)
DictGet(d, k, default) ==
    IF \E i \in 1..Len(d) : d[i].key = k
    THEN d[CHOOSE i \in 1..Len(d) : d[i].key = k].val
    ELSE default

\* The loop of first_sprint_value from header position i on (positions are
\* 1-based here: Python's i < len(row_list) is i <= Len(row_list)).
RECURSIVE SprintFrom(_, _, _)
SprintFrom(row_list, header, i) ==
    IF i > Len(header) THEN <<>>
    ELSE IF header[i] = "Sprint" /\ i <= Len(row_list) /\ Strip(row_list[i]) # <<>>
         THEN Strip(row_list[i])
         ELSE SprintFrom(row_list, header, i + 1)

\* Mutation: Sprint is read like any other column, from the first column of
\* that name.
first_sprint_value_firstColumn(row_list, header) ==
    IF \E i \in 1..Len(header) : header[i] = "Sprint"
    THEN LET i == CHOOSE i \in 1..Len(header) :
                      header[i] = "Sprint" /\ \A j \in 1..(i - 1) : header[j] # "Sprint"
         IN IF i <= Len(row_list) THEN Strip(row_list[i]) ELSE <<>>
    ELSE <<>>

first_sprint_value(row_list, header) == SprintFrom(row_list, header, 1)

\* Mutation: a column the header lacks is skipped, not set to "".
NormalizeColumn_skipsMissing(out, col, row_list, header, name_to_idx, date_cols) ==
    IF col = "Sprint"
    THEN DictSet(out, col, first_sprint_value(row_list, header))
    ELSE IF col \notin DOMAIN name_to_idx
         THEN out
         ELSE LET idx == name_to_idx[col]
                  val == IF idx <= Len(row_list) THEN row_list[idx] ELSE <<>>
              IN DictSet(out, col, IF col \in date_cols THEN parse_date(val) ELSE val)

\* One iteration of normalize_row's loop: the item it adds to out for col.
NormalizeColumn(out, col, row_list, header, name_to_idx, date_cols) ==
    IF col = "Sprint"
    THEN DictSet(out, col, first_sprint_value(row_list, header))
    ELSE IF col \notin DOMAIN name_to_idx
         THEN DictSet(out, col, <<>>)
         ELSE LET idx == name_to_idx[col]
                  val == IF idx <= Len(row_list) THEN row_list[idx] ELSE <<>>
              IN DictSet(out, col, IF col \in date_cols THEN parse_date(val) ELSE val)

RECURSIVE NormalizeFrom(_, _, _, _, _, _)
NormalizeFrom(out, i, row_list, header, name_to_idx, date_cols) ==
    IF i > Len(OUTPUT_COLUMNS) THEN out
    ELSE NormalizeFrom(
             NormalizeColumn(out, OUTPUT_COLUMNS[i], row_list, header, name_to_idx, date_cols),
             i + 1, row_list, header, name_to_idx, date_cols)

normalize_row(row_list, header, name_to_idx, date_cols) ==
    NormalizeFrom(<<>>, 1, row_list, header, name_to_idx, date_cols)

\* Mutation: without the "not in name_to_idx" test the last occurrence wins.
read_csv_headers_lastWins(header) ==
    [name \in Range(header) |->
        CHOOSE i \in 1..Len(header) :
            header[i] = name /\ \A j \in (i + 1)..Len(header) : header[j] # name]

\* read_csv_headers: name -> index of its first occurrence in the header.
read_csv_headers(header) ==
    [name \in Range(header) |->
        CHOOSE i \in 1..Len(header) :
            header[i] = name /\ \A j \in 1..(i - 1) : header[j] # name]

\* main, lines 136-137: a record shorter than the header is extended with "".
PadRow(row_list, header) ==
    IF Len(row_list) < Len(header)
    THEN row_list \o [i \in 1..(Len(header) - Len(row_list)) |-> <<>>]
    ELSE row_list

\* csv.DictWriter.writerow: the row's values in fieldnames order.
DictRowCells(row) == [i \in 1..Len(OUTPUT_COLUMNS) |-> DictGet(row, OUTPUT_COLUMNS[i], <<>>)]


(***************************************************************************)
(* sync_jira_to_sheet.py                                                   *)
(***************************************************************************)

\* JSON values as Python holds them: None, a str, a dict (its items in
\* order), a list.
PyNone == [t |-> "none"]
PyStr(s) == [t |-> "str", s |-> s]
PyDict(items) == [t |-> "dict", d |-> items]
PyList(items) == [t |-> "list", items |-> items]

IsDict(v) == v.t = "dict"

\* bool(v)
Truthy(v) ==
    CASE v.t = "none" -> FALSE
      [] v.t = "str" -> v.s # <<>>
      [] v.t = "dict" -> v.d # <<>>
      [] v.t = "list" -> v.items # <<>>

\* d.get(k) and d.get(k, default) of a dict value
Get(v, k) == DictGet(v.d, k, PyNone)

GetOr(v, k, default) == DictGet(v.d, k, default)

\* a or b
Or(a, b) == IF Truthy(a) THEN a ELSE b

\* str(v), for the values the rows of the model reach: a str, None, [] and {}
Str(v) ==
    CASE v.t = "str" -> v.s
      [] v.t = "none" -> <<"N", "o", "n", "e">>
      [] v.t = "list" /\ v.items = <<>> -> <<"[", "]">>
      [] v.t = "dict" /\ v.d = <<>> -> <<"{", "}">>

\* s.startswith(p)
StartsWith(s, p) == Len(s) >= Len(p) /\ SubSeq(s, 1, Len(p)) = p

\* s.split(sep)[0]
RECURSIVE SplitHead(_, _)
SplitHead(s, sep) ==
    IF s = <<>> \/ StartsWith(s, sep) THEN <<>>
    ELSE <<s[1]>> \o SplitHead(Tail(s), sep)

\* s.replace(old, new)
RECURSIVE Replace(_, _, _)
Replace(s, old, new) ==
    IF s = <<>> THEN <<>>
    ELSE IF StartsWith(s, old)
         THEN new \o Replace(SubSeq(s, Len(old) + 1, Len(s)), old, new)
         ELSE <<s[1]>> \o Replace(Tail(s), old, new)

\* s[-n:]
Suffix(s, n) == IF Len(s) <= n THEN s ELSE SubSeq(s, Len(s) - n + 1, Len(s))

\* datetime.fromisoformat on the two layouts the rows of the model reach,
\* YYYY-MM-DD and YYYY-MM-DD?HH:MM:SS: [ok |-> FALSE] stands for ValueError.
fromisoformat(s) ==
    LET Num(i, j) == ToInt(SubSeq(s, i, j))
        DateOk == /\ AllDigits(SubSeq(s, 1, 4)) /\ s[5] = "-"
                  /\ AllDigits(SubSeq(s, 6, 7)) /\ s[8] = "-"
                  /\ AllDigits(SubSeq(s, 9, 10))
                  /\ Num(1, 4) >= 1 /\ Num(6, 7) \in 1..12
                  /\ Num(9, 10) \in 1..DaysInMonth(Num(1, 4), Num(6, 7))
        TimeOk == /\ AllDigits(SubSeq(s, 12, 13)) /\ s[14] = ":"
                  /\ AllDigits(SubSeq(s, 15, 16)) /\ s[17] = ":"
                  /\ AllDigits(SubSeq(s, 18, 19))
                  /\ Num(12, 13) <= 23 /\ Num(15, 16) <= 59 /\ Num(18, 19) <= 59
    IN IF Len(s) = 10 /\ DateOk
       THEN [ok |-> TRUE,
             dt |-> [year |-> Num(1, 4), month |-> Num(6, 7), day |-> Num(9, 10),
                     hour |-> 0, minute |-> 0, second |-> 0]]
       ELSE IF Len(s) = 19 /\ DateOk /\ TimeOk
            THEN [ok |-> TRUE,
                  dt |-> [year |-> Num(1, 4), month |-> Num(6, 7), day |-> Num(9, 10),
                          hour |-> Num(12, 13), minute |-> Num(15, 16),
                          second |-> Num(18, 19)]]
            ELSE NoMatch

\* format_jira_date of a field's value (None or a str)
format_jira_date(iso) ==
    IF ~Truthy(iso) THEN <<>>
    ELSE LET iso_str == iso.s
             s == Replace(SplitHead(iso_str, <<".">>), <<"Z">>, <<"+", "0", "0", ":", "0", "0">>)
             r == IF Contains(s, "+") \/ Contains(Suffix(s, 6), "-")
                  THEN fromisoformat(
                           SplitHead(Replace(s, <<"+", "0", "0", ":", "0", "0">>, <<>>),
                                     <<"-", "0", "3">>))
                  ELSE fromisoformat(s)
         IN IF r.ok THEN strftimeFull(r.dt) ELSE iso_str

\* The keys of f that start with "customfield_".
CustomFieldKeys == {"customfield_10001", "customfield_10020", "customfield_10030"}

\* lines 139-143
TeamNameOf(value) ==
    IF IsDict(value)
    THEN Str(Or(Get(value, "name"), Or(Get(value, "value"), PyStr(Str(value)))))
    ELSE Str(value)

\* lines 144-150
SprintOf(value) ==
    IF value.t = "list" /\ value.items # <<>>
    THEN (IF value.items[1].t = "str" THEN value.items[1].s
          ELSE Str(GetOr(value.items[1], "name", PyStr(Str(value.items[1])))))
    ELSE Str(value)

\* lines 151-155
ProdutoOf(value) ==
    IF IsDict(value)
    THEN Str(Or(Get(value, "value"), Or(Get(value, "name"), PyStr(Str(value)))))
    ELSE Str(value)

\* lines 130-155: the loop over f.items() from item i on; acc holds team_name,
\* sprint and produto.
RECURSIVE CustomFrom(_, _, _, _)
CustomFrom(items, i, field_names_by_id, acc) ==
    IF i > Len(items) THEN acc
    ELSE LET key == items[i].key
             value == items[i].val
             name == IF key \in DOMAIN field_names_by_id
                     THEN field_names_by_id[key] ELSE key
             next == IF key \notin CustomFieldKeys \/ value = PyNone THEN acc
                     ELSE IF name = "Team Name"
                          THEN [acc EXCEPT !.team_name = TeamNameOf(value)]
                     ELSE IF name = "Sprint"
                          THEN [acc EXCEPT !.sprint = SprintOf(value)]
                     ELSE IF name = "Custom field (Produto)" \/ name = "Produto"
                          THEN [acc EXCEPT !.produto = ProdutoOf(value)]
                     ELSE acc
         IN CustomFrom(items, i + 1, field_names_by_id, next)

\* (f.get(k) or {}).get(sub, "") if isinstance(f.get(k), dict) else other
SubField(f, k, sub, other) ==
    IF IsDict(Get(f, k))
    THEN Str(GetOr(Or(Get(f, k), PyDict(<<>>)), sub, PyStr(<<>>)))
    ELSE other

\* f["assignee"].get("displayName") or f["assignee"].get("emailAddress") or ""
PersonOf(f, k) ==
    IF Truthy(Get(f, k))
    THEN Str(Or(Get(Get(f, k), "displayName"),
                Or(Get(Get(f, k), "emailAddress"), PyStr(<<>>))))
    ELSE <<>>

Item(k, v) == [key |-> k, val |-> v]

issue_to_row(issue, field_names_by_id) ==
    LET f == Or(Get(issue, "fields"), PyDict(<<>>))
        res == Get(f, "resolution")
        resolution == IF IsDict(res) THEN Str(GetOr(res, "name", PyStr(<<>>)))
                      ELSE Str(Or(res, PyStr(<<>>)))
        status == Or(Get(f, "status"), PyDict(<<>>))
        sc == IF IsDict(status) THEN Or(Get(status, "statusCategory"), PyDict(<<>>))
              ELSE PyNone
        status_category == IF IsDict(status) /\ IsDict(sc)
                           THEN Str(GetOr(sc, "name", PyStr(<<>>)))
                           ELSE <<>>
        custom == CustomFrom(f.d, 1, field_names_by_id,
                             [team_name |-> <<>>, sprint |-> <<>>, produto |-> <<>>])
    IN << Item("Summary", Strip(Str(Or(Get(f, "summary"), PyStr(<<>>))))),
          Item("Issue key", Str(GetOr(issue, "key", PyStr(<<>>)))),
          Item("Issue id", Str(GetOr(issue, "id", PyStr(<<>>)))),
          Item("Issue Type",
               SubField(f, "issuetype", "name", Str(GetOr(f, "issuetype", PyStr(<<>>))))),
          Item("Status",
               IF IsDict(status) THEN Str(GetOr(status, "name", PyStr(<<>>)))
               ELSE Str(status)),
          Item("Project key", SubField(f, "project", "key", <<>>)),
          Item("Project name", SubField(f, "project", "name", <<>>)),
          Item("Priority", SubField(f, "priority", "name", <<>>)),
          Item("Resolution", resolution),
          Item("Assignee", PersonOf(f, "assignee")),
          Item("Reporter", PersonOf(f, "reporter")),
          Item("Created", format_jira_date(Get(f, "created"))),
          Item("Updated", format_jira_date(Get(f, "updated"))),
          Item("Resolved", format_jira_date(Get(f, "resolutiondate"))),
          Item("Due date", format_jira_date(Get(f, "duedate"))),
          Item("Team Name", custom.team_name),
          Item("Sprint", custom.sprint),
          Item("Custom field (Produto)", custom.produto),
          Item("Status Category", status_category),
          Item("Status Category Changed",
               format_jira_date(Or(Get(f, "statusCategoryChangedDate"), PyStr(<<>>)))) >>

\* write_to_sheet, line 213: the body's values
SheetValues(rows) ==
    <<OUTPUT_COLUMNS>> \o
        [r \in 1..Len(rows) |->
            [i \in 1..Len(OUTPUT_COLUMNS) |-> DictGet(rows[r], OUTPUT_COLUMNS[i], <<>>)]]

(***************************************************************************)
(* State                                                                   *)
(***************************************************************************)

VARIABLES
    \* -- one run of normalize_jira_csv.py main, and a second run on its output
    inFile,       \* the input artifact: [state, header, rows]
    outFile,      \* the output path: [exists, header, rows]
    out0,         \* the output path as it was when the run started
    outOpened,    \* whether this run has opened the output path for writing
    pc,           \* main's position
    pass,         \* 1: the run on the raw file; 2: the run on the clean file
    name_to_idx,  \* read_csv_headers' map
    header,       \* the header read_csv_headers returned
    pos,          \* records the reader has yielded
    rows_out,     \* main's list of normalized rows
    written,      \* rows writerows has written
    exitCode,     \* the process's exit status; -1 while it runs
    diag,         \* what the run printed last
    table1,       \* the clean table the first run wrote
    \* -- normalize_row applied to one record: the header, the record as read,
    \* read_csv_headers' map, the padded row_list, the row built, the position
    rHeader, rRow, rIdx, rList, rOut, rPc,
    \* -- parse_date applied to one value: the value, the result, the result of
    \* parsing the result again, the position
    dIn, dOut, dAgain, dPc,
    \* -- one run of sync_jira_to_sheet.py main: the issues and field names
    \* fetched, the rows built, the sheet's range A:T, the position
    issues, field_names, sync_rows, sheet, sPc,
    \* -- app.py load_data, run each time the page is (re)loaded: the two raw
    \* paths of CSV_RAW_OPTIONS, whether NORMALIZE_SCRIPT exists, what
    \* CSV_CLEAN.exists() answered, the frame read, the message st.error showed,
    \* the exception that left load_data, the loads so far, the position
    rawFiles, scriptExists, sawClean, df, shown, lErr, loads, lPc,
    \* -- fetch_all_issues: the startAt of each request sent, the loop's locals
    \* start, total and issues (as fetched), the position
    asked, start, total, fetched, fPc

passVars == <<inFile, outFile, out0, outOpened, pc, pass, name_to_idx, header,
              pos, rows_out, written, exitCode, diag, table1>>
rowVars == <<rHeader, rRow, rIdx, rList, rOut, rPc>>
dateVars == <<dIn, dOut, dAgain, dPc>>
syncVars == <<issues, field_names, sync_rows, sheet, sPc>>
loadVars == <<rawFiles, scriptExists, sawClean, df, shown, lErr, loads, lPc>>
fetchVars == <<asked, start, total, fetched, fPc>>
vars == <<passVars, rowVars, dateVars, syncVars, loadVars, fetchVars>>

\* All sequences over S of length at most n.
SeqUpTo(S, n) == UNION {[1..k -> S] : k \in 0..n}

(***************************************************************************)
(* Inputs                                                                  *)
(***************************************************************************)

\* Most data records of an input file.
MaxRows == 2
\* Most columns of a header, and most cells of a record, given to normalize_row.
MaxHeader == 3
MaxCells == 3
\* Most whitespace characters around a date value.
MaxPad == 1
\* Most issues the search returns.
MaxIssues == 2
\* Most times the page is loaded.
MaxLoads == 2
\* Most requests fetch_all_issues sends, the largest total a response reports
\* and most issues of one page.
MaxRequests == 3
MaxTotal == 3
MaxPage == 2

sFix == <<"F", "i", "x">>
sKey == <<"P", "-", "1">>
sS4 == <<"S", "4">>
sS5pad == <<" ", "S", "5", " ">>
sBlank == <<" ">>
sExtra == <<"x">>
sAmPm == <<"1", "0", "/", "D", "e", "c", "/", "2", "5", " ", "8", ":", "4", "3", " ", "A", "M">>
sDmy == <<"1", "/", "D", "e", "c", "/", "2", "5">>
sTab == <<"2", "0", "2", "5", "-", "1", "2", "-", "1", "0", "\t", "1", ":", "2", ":", "3">>
sNotADate == <<"n", "o", "t", "-", "a", "-", "d", "a", "t", "e">>

\* Headers and records of the input files of a run.
PassHeaders ==
    { <<"Summary", "Issue key", "Created">>,
      <<"Sprint", "Status", "Sprint", "Status">>,
      <<"Created", "Extra", "Due date", "Created">> }

PassRows ==
    { <<sFix, sKey, sAmPm>>,
      <<>>,
      <<sS5pad>>,
      <<<<>>, sS4, sTab, sExtra, sExtra>>,
      <<sNotADate, sBlank, sNotADate>> }

\* "missing": no such path; "unreadable": open or the header's decoding raises;
\* "empty": no line at all (next(reader) raises StopIteration); "corrupt": the
\* reader raises after yielding rows; "ok": rows is the whole file.
PassFiles ==
    {[state |-> s, header |-> h, rows |-> r] :
        s \in {"ok", "corrupt"}, h \in PassHeaders, r \in SeqUpTo(PassRows, MaxRows)}
    \cup {[state |-> s, header |-> <<>>, rows |-> <<>>] :
            s \in {"missing", "unreadable", "empty"}}

NoFile == [exists |-> FALSE, header |-> <<>>, rows |-> <<>>]

\* A clean table left by an earlier run.
OldTable == [exists |-> TRUE, header |-> OUTPUT_COLUMNS,
             rows |-> << [i \in 1..Len(OUTPUT_COLUMNS) |-> sExtra] >>]

\* Headers and records given to normalize_row.
RowNames == {"Sprint", "Status", "Due date"}
RowCells == {<<>>, sBlank, sS4, sS5pad, sDmy}
RowHeaders == SeqUpTo(RowNames, MaxHeader)
RowRecords == SeqUpTo(RowCells, MaxCells)

\* Issues as the search API returns them, and the field names of /field.
IssueFull ==
    PyDict(<<Item("key", PyStr(<<"P", "-", "1">>)), Item("id", PyStr(<<"7">>)), Item("fields", PyDict(<<Item("summary", PyStr(<<" ", "F", "i", "x", " ">>)), Item("issuetype", PyDict(<<Item("name", PyStr(<<"B", "u", "g">>))>>)), Item("status", PyDict(<<Item("name", PyStr(<<"O", "p", "e", "n">>)), Item("statusCategory", PyDict(<<Item("name", PyStr(<<"T", "o", " ", "D", "o">>))>>))>>)), Item("project", PyDict(<<Item("key", PyStr(<<"P">>)), Item("name", PyStr(<<"P", "r">>))>>)), Item("priority", PyDict(<<Item("name", PyStr(<<"H", "i">>))>>)), Item("resolution", PyNone), Item("assignee", PyDict(<<Item("displayName", PyStr(<<"A", "n", "a">>))>>)), Item("reporter", PyDict(<<Item("emailAddress", PyStr(<<"r", "@", "x">>))>>)), Item("created", PyStr(<<"2", "0", "2", "6", "-", "0", "1", "-", "2", "2", "T", "1", "0", ":", "0", "4", ":", "0", "0", ".", "0", "0", "0", "-", "0", "3", "0", "0">>)), Item("updated", PyStr(<<"2", "0", "2", "6", "-", "0", "3", "-", "0", "5", "T", "1", "0", ":", "0", "4", ":", "0", "0", "-", "0", "3", "0", "0">>)), Item("resolutiondate", PyNone), Item("duedate", PyStr(<<"2", "0", "2", "6", "-", "0", "1", "-", "0", "3">>)), Item("statusCategoryChangedDate", PyStr(<<"2", "0", "2", "6", "-", "0", "1", "-", "2", "2", "T", "1", "0", ":", "0", "4", ":", "0", "0", "Z">>)), Item("customfield_10020", PyList(<<PyDict(<<Item("name", PyStr(<<"S", "4">>))>>), PyDict(<<Item("name", PyStr(<<"S", "5">>))>>)>>)), Item("customfield_10001", PyDict(<<Item("name", PyStr(<<"C", "o", "r", "e">>))>>)), Item("customfield_10030", PyDict(<<Item("value", PyStr(<<"A", "p", "p">>))>>)), Item("customfield_10099", PyStr(<<"z", "z">>))>>))>>)

IssueBare ==
    PyDict(<<>>)

IssueOdd ==
    PyDict(<<Item("key", PyStr(<<"P", "-", "2">>)), Item("fields", PyDict(<<Item("summary", PyNone), Item("issuetype", PyNone), Item("status", PyStr(<<"O", "p", "e", "n">>)), Item("project", PyNone), Item("resolution", PyDict(<<Item("name", PyStr(<<"D", "o", "n", "e">>))>>)), Item("assignee", PyDict(<<>>)), Item("reporter", PyDict(<<Item("displayName", PyStr(<<>>)), Item("emailAddress", PyStr(<<>>))>>)), Item("created", PyStr(<<"n", "/", "a">>)), Item("duedate", PyStr(<<"2", "0", "2", "6", "-", "0", "1", "-", "2", "2">>)), Item("statusCategoryChangedDate", PyNone), Item("customfield_10020", PyList(<<PyStr(<<"S", "3">>), PyStr(<<"S", "4">>)>>)), Item("customfield_10001", PyStr(<<"O", "p", "s">>)), Item("customfield_10030", PyNone)>>))>>)

IssueFlat ==
    PyDict(<<Item("id", PyStr(<<"9">>)), Item("fields", PyDict(<<Item("summary", PyStr(<<"x">>)), Item("resolution", PyStr(<<"D", "u", "p">>)), Item("status", PyDict(<<Item("name", PyStr(<<"D", "o", "n", "e">>)), Item("statusCategory", PyNone)>>)), Item("customfield_10020", PyList(<<>>)), Item("customfield_10001", PyDict(<<Item("value", PyStr(<<"T">>))>>)), Item("customfield_10030", PyDict(<<Item("name", PyStr(<<"W", "e", "b">>))>>)), Item("customfield_10040", PyList(<<PyDict(<<Item("id", PyStr(<<"1">>))>>)>>))>>))>>)

SyncIssues == {IssueFull, IssueBare, IssueOdd, IssueFlat}

FieldNames ==
    [k \in CustomFieldKeys |->
        CASE k = "customfield_10001" -> "Team Name"
          [] k = "customfield_10020" -> "Sprint"
          [] OTHER -> "Produto"]

\* Date values: day/month/year forms, ISO forms and text that is no date,
\* each with up to MaxPad whitespace characters before and after.
Cat(a, b, c) == a \o b \o c

DmyValues ==
    { d \o <<"/">> \o m \o dot \o <<"/", "2", "5">> \o t :
        d \in {<<"1">>, <<"1", "0">>, <<"3", "1">>},
        m \in {<<"D", "e", "c">>, <<"f", "e", "b">>},
        dot \in {<<>>, <<".">>},
        t \in { <<>>,
                <<" ", "8", ":", "4", "3", " ", "A", "M">>,
                <<" ", "1", "2", ":", "5", " ", "p", "m">>,
                <<" ", "1", "4", ":", "3", "8">>,
                <<" ", "1", "3", ":", "0", "0", " ", "P", "M">> } }

IsoValues ==
    { d \o t \o f :
        d \in { <<"2", "0", "2", "5", "-", "1", "2", "-", "1", "0">>,
                <<"2", "0", "2", "5", "-", "2", "-", "3", "0">> },
        t \in { <<>>,
                <<" ", "1", "1", ":", "4", "4", ":", "3", "4">>,
                <<"\t", "1", "1", ":", "4", "4", ":", "3", "4">>,
                <<" ", " ", "1", "1", ":", "4", "4", ":", "3", "4">>,
                <<"T", "1", "1", ":", "4", "4", ":", "3", "4">> },
        f \in {<<>>, <<".", "1", "7">>, <<".", "1", "2", "3", "4", "5", "6", "7">>} }

Pads == SeqUpTo({" "}, MaxPad)

DateValues ==
    { Cat(a, v, b) : a \in Pads, b \in Pads,
                     v \in DmyValues \cup IsoValues \cup {<<>>, sNotADate} }


(***************************************************************************)
(* normalize_jira_csv.py main, step by step                                *)
(***************************************************************************)

PassIdle == /\ pc = "off" /\ pass = 0 /\ inFile = [state |-> "missing", header |-> <<>>, rows |-> <<>>]
            /\ outFile = NoFile /\ out0 = NoFile /\ outOpened = FALSE
            /\ name_to_idx = <<>> /\ header = <<>> /\ pos = 0 /\ rows_out = <<>>
            /\ written = 0 /\ exitCode = -1 /\ diag = "" /\ table1 = NoFile

RowIdle == /\ rPc = "off" /\ rHeader = <<>> /\ rRow = <<>> /\ rIdx = <<>>
           /\ rList = <<>> /\ rOut = <<>>

DateIdle == /\ dPc = "off" /\ dIn = <<>> /\ dOut = <<>> /\ dAgain = <<>>

SyncIdle == /\ sPc = "off" /\ issues = <<>> /\ field_names = <<>> /\ sync_rows = <<>>
            /\ sheet = <<>>

NoFrame == [columns |-> <<>>, nrows |-> 0]

LoadIdle == /\ lPc = "off" /\ rawFiles = <<>> /\ scriptExists = FALSE /\ sawClean = FALSE
            /\ df = NoFrame /\ shown = "" /\ lErr = "" /\ loads = 0

FetchIdle == /\ fPc = "off" /\ asked = <<>> /\ start = 0 /\ total = -1 /\ fetched = <<>>

PassInit ==
    /\ inFile \in PassFiles
    /\ outFile \in {NoFile, OldTable}
    /\ out0 = outFile
    /\ outOpened = FALSE
    /\ pc = "check"
    /\ pass = 1
    /\ name_to_idx = <<>>
    /\ header = <<>>
    /\ pos = 0
    /\ rows_out = <<>>
    /\ written = 0
    /\ exitCode = -1
    /\ diag = ""
    /\ table1 = NoFile

\* The conditions under which each step of main is taken.
AtCheck == pc = "check"
AtOpenInput == pc = "open_in"
ReaderHasRow == pc = "read" /\ pos < Len(inFile.rows)
ReaderRaises == pc = "read" /\ pos = Len(inFile.rows) /\ inFile.state = "corrupt"
ReaderExhausted == pc = "read" /\ pos = Len(inFile.rows) /\ inFile.state = "ok"
AtOpenOutput == pc = "open_out"
AtWriteHeader == pc = "write_header"
WriterHasRow == pc = "write_rows" /\ written < Len(rows_out)
WriterDone == pc = "write_rows" /\ written = Len(rows_out)

\* Some step of main can be taken.
MainCanStep ==
    \/ AtCheck \/ AtOpenInput \/ ReaderHasRow \/ ReaderRaises \/ ReaderExhausted
    \/ AtOpenOutput \/ AtWriteHeader \/ WriterHasRow \/ WriterDone

\* An uncaught exception: the interpreter prints the traceback and exits 1.
Crash ==
    /\ pc' = "done"
    /\ exitCode' = 1
    /\ diag' = "traceback"

\* lines 126-128: a missing input is reported and ends the run with status 1.
CheckInput ==
    /\ AtCheck
    /\ IF inFile.state = "missing"
       THEN /\ pc' = "done"
            /\ exitCode' = 1
            /\ diag' = "Erro: arquivo nao encontrado"
       ELSE /\ pc' = "open_in"
            /\ UNCHANGED <<exitCode, diag>>
    /\ UNCHANGED <<inFile, outFile, out0, outOpened, pass, name_to_idx, header,
                   pos, rows_out, written, table1>>
    /\ UNCHANGED <<rowVars, dateVars, syncVars, loadVars, fetchVars>>

\* Mutation: the output is opened together with the input, before the rows
\* are read.
OpenInput_opensOutput ==
    /\ AtOpenInput
    /\ IF inFile.state \in {"unreadable", "empty"}
       THEN /\ Crash
            /\ UNCHANGED <<name_to_idx, header, outFile, outOpened>>
       ELSE /\ header' = inFile.header
            /\ name_to_idx' = read_csv_headers(inFile.header)
            /\ outFile' = [exists |-> TRUE, header |-> <<>>, rows |-> <<>>]
            /\ outOpened' = TRUE
            /\ pc' = "read"
            /\ UNCHANGED <<exitCode, diag>>
    /\ rows_out' = <<>>
    /\ UNCHANGED <<inFile, out0, pass, pos, written, table1>>
    /\ UNCHANGED <<rowVars, dateVars, syncVars, loadVars, fetchVars>>

\* lines 132-134: rows_out = [], open the input, read_csv_headers.
OpenInput ==
    /\ AtOpenInput
    /\ IF inFile.state \in {"unreadable", "empty"}
       THEN /\ Crash
            /\ UNCHANGED <<name_to_idx, header>>
       ELSE /\ header' = inFile.header
            /\ name_to_idx' = read_csv_headers(inFile.header)
            /\ pc' = "read"
            /\ UNCHANGED <<exitCode, diag>>
    /\ rows_out' = <<>>
    /\ UNCHANGED <<inFile, outFile, out0, outOpened, pass, pos, written, table1>>
    /\ UNCHANGED <<rowVars, dateVars, syncVars, loadVars, fetchVars>>

\* Mutation: a blank line (an empty record) is skipped.
ReadRow_skipsBlank ==
    /\ ReaderHasRow
    /\ LET row_list == PadRow(inFile.rows[pos + 1], header)
           normalized == normalize_row(row_list, header, name_to_idx, date_columns)
       IN rows_out' = IF inFile.rows[pos + 1] = <<>> THEN rows_out
                      ELSE Append(rows_out, normalized)
    /\ pos' = pos + 1
    /\ UNCHANGED <<inFile, outFile, out0, outOpened, pc, pass, name_to_idx, header,
                   written, exitCode, diag, table1>>
    /\ UNCHANGED <<rowVars, dateVars, syncVars, loadVars, fetchVars>>

\* Mutation: a record with fewer cells than the header raises IndexError
\* (no padding, no bounds test).
ReadRow_abortsOnShort ==
    /\ ReaderHasRow
    /\ IF Len(inFile.rows[pos + 1]) < Len(header)
       THEN /\ Crash
            /\ UNCHANGED rows_out
       ELSE /\ rows_out' = Append(rows_out,
                               normalize_row(inFile.rows[pos + 1], header, name_to_idx,
                                             date_columns))
            /\ UNCHANGED <<pc, exitCode, diag>>
    /\ pos' = pos + 1
    /\ UNCHANGED <<inFile, outFile, out0, outOpened, pass, name_to_idx, header,
                   written, table1>>
    /\ UNCHANGED <<rowVars, dateVars, syncVars, loadVars, fetchVars>>

\* lines 135-139: one iteration of the loop over the reader.
ReadRow ==
    /\ ReaderHasRow
    /\ LET row_list == PadRow(inFile.rows[pos + 1], header)
           normalized == normalize_row(row_list, header, name_to_idx, date_columns)
       IN rows_out' = Append(rows_out, normalized)
    /\ pos' = pos + 1
    /\ UNCHANGED <<inFile, outFile, out0, outOpened, pc, pass, name_to_idx, header,
                   written, exitCode, diag, table1>>
    /\ UNCHANGED <<rowVars, dateVars, syncVars, loadVars, fetchVars>>

\* line 135: the reader raises (a decoding or csv error) instead of yielding.
ReadError ==
    /\ ReaderRaises
    /\ Crash
    /\ UNCHANGED <<inFile, outFile, out0, outOpened, pass, name_to_idx, header,
                   pos, rows_out, written, table1>>
    /\ UNCHANGED <<rowVars, dateVars, syncVars, loadVars, fetchVars>>

\* line 135: the reader is exhausted; the with block closes the input.
EndOfInput ==
    /\ ReaderExhausted
    /\ pc' = "open_out"
    /\ UNCHANGED <<inFile, outFile, out0, outOpened, pass, name_to_idx, header,
                   pos, rows_out, written, exitCode, diag, table1>>
    /\ UNCHANGED <<rowVars, dateVars, syncVars, loadVars, fetchVars>>

\* line 141: open(output_path, "w") creates or truncates the file.
OpenOutput ==
    /\ AtOpenOutput
    /\ outFile' = [exists |-> TRUE, header |-> <<>>, rows |-> <<>>]
    /\ outOpened' = TRUE
    /\ pc' = "write_header"
    /\ UNCHANGED <<inFile, out0, pass, name_to_idx, header, pos, rows_out, written,
                   exitCode, diag, table1>>
    /\ UNCHANGED <<rowVars, dateVars, syncVars, loadVars, fetchVars>>

\* lines 142-143: DictWriter(fieldnames=OUTPUT_COLUMNS).writeheader()
WriteHeader ==
    /\ AtWriteHeader
    /\ outFile' = [outFile EXCEPT !.header = OUTPUT_COLUMNS]
    /\ written' = 0
    /\ pc' = "write_rows"
    /\ UNCHANGED <<inFile, out0, outOpened, pass, name_to_idx, header, pos, rows_out,
                   exitCode, diag, table1>>
    /\ UNCHANGED <<rowVars, dateVars, syncVars, loadVars, fetchVars>>

\* line 144: writerows, one row of rows_out at a time.
WriteRow ==
    /\ WriterHasRow
    /\ outFile' = [outFile EXCEPT !.rows = Append(@, DictRowCells(rows_out[written + 1]))]
    /\ written' = written + 1
    /\ UNCHANGED <<inFile, out0, outOpened, pc, pass, name_to_idx, header, pos,
                   rows_out, exitCode, diag, table1>>
    /\ UNCHANGED <<rowVars, dateVars, syncVars, loadVars, fetchVars>>

\* lines 144-146: the with block closes the output, the count is printed and
\* main returns.
Report ==
    /\ WriterDone
    /\ pc' = "done"
    /\ exitCode' = 0
    /\ diag' = "Escritos n registros"
    /\ UNCHANGED <<inFile, outFile, out0, outOpened, pass, name_to_idx, header, pos,
                   rows_out, written, table1>>
    /\ UNCHANGED <<rowVars, dateVars, syncVars, loadVars, fetchVars>>

\* The script is run again with the clean file it wrote as its input.
Rerun ==
    /\ pc = "done"
    /\ exitCode = 0
    /\ pass = 1
    /\ inFile' = [state |-> "ok", header |-> outFile.header, rows |-> outFile.rows]
    /\ table1' = outFile
    /\ out0' = outFile
    /\ outOpened' = FALSE
    /\ pass' = 2
    /\ pc' = "check"
    /\ name_to_idx' = <<>>
    /\ header' = <<>>
    /\ pos' = 0
    /\ rows_out' = <<>>
    /\ written' = 0
    /\ exitCode' = -1
    /\ diag' = ""
    /\ UNCHANGED outFile
    /\ UNCHANGED <<rowVars, dateVars, syncVars, loadVars, fetchVars>>

(***************************************************************************)
(* sync_jira_to_sheet.py main, from the fetched issues on                  *)
(***************************************************************************)

\* lines 236-237: field_names and issues as fetched; the sheet holds a table
\* of an earlier run.
SyncInit ==
    /\ field_names = FieldNames
    /\ issues \in SeqUpTo(SyncIssues, MaxIssues)
    /\ sync_rows = <<>>
    /\ sheet = <<OUTPUT_COLUMNS, [i \in 1..Len(OUTPUT_COLUMNS) |-> sExtra]>>
    /\ sPc = "rows"

\* line 238: one element of the list comprehension.
SyncBuildRow ==
    /\ sPc = "rows"
    /\ Len(sync_rows) < Len(issues)
    /\ sync_rows' = Append(sync_rows, issue_to_row(issues[Len(sync_rows) + 1], field_names))
    /\ UNCHANGED <<issues, field_names, sheet, sPc>>
    /\ UNCHANGED <<passVars, rowVars, dateVars, loadVars, fetchVars>>

\* lines 215-220: write_to_sheet clears the range A:T.
SyncClear ==
    /\ sPc = "rows"
    /\ Len(sync_rows) = Len(issues)
    /\ sheet' = <<>>
    /\ sPc' = "update"
    /\ UNCHANGED <<issues, field_names, sync_rows>>
    /\ UNCHANGED <<passVars, rowVars, dateVars, loadVars, fetchVars>>

\* lines 221-227: write_to_sheet writes the header and the rows from A1.
SyncUpdate ==
    /\ sPc = "update"
    /\ sheet' = SheetValues(sync_rows)
    /\ sPc' = "done"
    /\ UNCHANGED <<issues, field_names, sync_rows>>
    /\ UNCHANGED <<passVars, rowVars, dateVars, loadVars, fetchVars>>

Init ==
    \/ PassInit /\ RowIdle /\ DateIdle /\ SyncIdle /\ LoadIdle /\ FetchIdle
    \/ PassIdle /\ RowIdle /\ DateIdle /\ SyncInit /\ LoadIdle /\ FetchIdle

Next ==
    \/ SyncBuildRow
    \/ SyncClear
    \/ SyncUpdate
    \/ CheckInput
    \/ OpenInput
    \/ ReadRow
    \/ ReadError
    \/ EndOfInput
    \/ OpenOutput
    \/ WriteHeader
    \/ WriteRow
    \/ Report
    \/ Rerun

Spec == Init /\ [][Next]_vars

(***************************************************************************)
(* app.py load_data, with the normalizer as its subprocess                 *)
(***************************************************************************)

\* What the two paths of CSV_RAW_OPTIONS hold: Jira.csv, then
\* "Jira - Jira.csv.csv".
LoadRawFirst ==
    {f \in PassFiles : f.header \in {<<>>, <<"Summary", "Issue key", "Created">>}}
LoadRawSecond ==
    {[state |-> "missing", header |-> <<>>, rows |-> <<>>],
     [state |-> "ok", header |-> <<"Sprint", "Status", "Sprint", "Status">>,
      rows |-> << <<sS4, sFix>> >>]}

\* Path.exists() of a raw path.
Exists(f) == f.state # "missing"

\* line 26: next((p for p in CSV_RAW_OPTIONS if p.exists()), None); 0 is None.
RECURSIVE FirstExisting(_)
FirstExisting(i) ==
    IF i > Len(rawFiles) THEN 0
    ELSE IF Exists(rawFiles[i]) THEN i
    ELSE FirstExisting(i + 1)
raw_path == FirstExisting(1)

\* pd.read_csv of a file with a header line: the frame's columns and its number
\* of rows.
read_csv(f) == [columns |-> f.header, nrows |-> Len(f.rows)]

\* The page is opened: the clean path holds nothing or an earlier table.
LoadInit ==
    /\ rawFiles \in {<<a, b>> : a \in LoadRawFirst, b \in LoadRawSecond}
    /\ scriptExists \in BOOLEAN
    /\ outFile \in {NoFile, OldTable}
    /\ out0 = outFile
    /\ lPc = "start" /\ loads = 1
    /\ sawClean = FALSE /\ df = NoFrame /\ shown = "" /\ lErr = ""
    /\ pc = "off" /\ pass = 0
    /\ inFile = [state |-> "missing", header |-> <<>>, rows |-> <<>>]
    /\ outOpened = FALSE /\ name_to_idx = <<>> /\ header = <<>> /\ pos = 0
    /\ rows_out = <<>> /\ written = 0 /\ exitCode = -1 /\ diag = "" /\ table1 = NoFile

\* line 23: if CSV_CLEAN.exists()
LoadCheckClean ==
    /\ lPc = "start"
    /\ sawClean' = outFile.exists
    /\ lPc' = IF outFile.exists THEN "read_clean" ELSE "find_raw"
    /\ UNCHANGED <<rawFiles, scriptExists, df, shown, lErr, loads>>
    /\ UNCHANGED <<passVars, rowVars, dateVars, syncVars, fetchVars>>

\* lines 24 and 34, then 38: df = pd.read_csv(CSV_CLEAN); return df. A file
\* without a header line raises pandas.errors.EmptyDataError.
LoadReadClean ==
    /\ lPc = "read_clean"
    /\ IF outFile.header = <<>>
       THEN /\ lPc' = "raised"
            /\ lErr' = "EmptyDataError"
            /\ UNCHANGED df
       ELSE /\ df' = read_csv(outFile)
            /\ lPc' = "returned"
            /\ UNCHANGED lErr
    /\ UNCHANGED <<rawFiles, scriptExists, sawClean, shown, loads>>
    /\ UNCHANGED <<passVars, rowVars, dateVars, syncVars, fetchVars>>

\* lines 26-33: a raw file and the script exist: the normalizer is started on
\* raw_path with CSV_CLEAN as its output, and load_data waits for it.
LoadRunNormalizer ==
    /\ lPc = "find_raw"
    /\ raw_path # 0 /\ scriptExists
    /\ lPc' = "running"
    /\ inFile' = rawFiles[raw_path]
    /\ out0' = outFile
    /\ outOpened' = FALSE
    /\ pc' = "check"
    /\ pass' = 1
    /\ name_to_idx' = <<>>
    /\ header' = <<>>
    /\ pos' = 0
    /\ rows_out' = <<>>
    /\ written' = 0
    /\ exitCode' = -1
    /\ diag' = ""
    /\ UNCHANGED <<outFile, table1>>
    /\ UNCHANGED <<rawFiles, scriptExists, sawClean, df, shown, lErr, loads>>
    /\ UNCHANGED <<rowVars, dateVars, syncVars, fetchVars>>

\* lines 35-37: no raw file or no script: st.error(...) then st.stop(), which
\* ends the script run with the message on the page.
LoadHalt ==
    /\ lPc = "find_raw"
    /\ ~(raw_path # 0 /\ scriptExists)
    /\ shown' = "Nenhum dado encontrado"
    /\ lPc' = "halted"
    /\ UNCHANGED <<rawFiles, scriptExists, sawClean, df, lErr, loads>>
    /\ UNCHANGED <<passVars, rowVars, dateVars, syncVars, fetchVars>>

\* The normalizer process is killed while it writes (lines 141-144 of
\* normalize_jira_csv.py): what it wrote through the buffered file reaches
\* the disk up to some point, and nothing more.
Interrupt ==
    /\ lPc = "running"
    /\ pc \in {"write_header", "write_rows"}
    /\ outFile' \in
          {[exists |-> TRUE, header |-> <<>>, rows |-> <<>>]}
          \cup {[exists |-> TRUE, header |-> outFile.header,
                 rows |-> SubSeq(outFile.rows, 1, k)] :
                   k \in IF outFile.header = <<>> THEN {0} ELSE 0..Len(outFile.rows)}
    /\ pc' = "killed"
    /\ exitCode' = -9
    /\ UNCHANGED <<inFile, out0, outOpened, pass, name_to_idx, header, pos, rows_out,
                   written, diag, table1>>
    /\ UNCHANGED <<loadVars, rowVars, dateVars, syncVars, fetchVars>>

\* lines 28-33: subprocess.run(..., check=True) returns when the normalizer
\* exited with status 0 and raises CalledProcessError otherwise.
LoadRunEnds ==
    /\ lPc = "running"
    /\ pc \in {"done", "killed"}
    /\ IF exitCode = 0
       THEN lPc' = "read_clean" /\ UNCHANGED lErr
       ELSE lPc' = "raised" /\ lErr' = "CalledProcessError"
    /\ UNCHANGED <<rawFiles, scriptExists, sawClean, df, shown, loads>>
    /\ UNCHANGED <<passVars, rowVars, dateVars, syncVars, fetchVars>>

\* line 84: the page is loaded again and the script runs load_data anew.
LoadAgain ==
    /\ lPc \in {"returned", "halted", "raised"}
    /\ loads < MaxLoads
    /\ loads' = loads + 1
    /\ lPc' = "start"
    /\ sawClean' = FALSE /\ df' = NoFrame /\ shown' = "" /\ lErr' = ""
    /\ UNCHANGED <<rawFiles, scriptExists>>
    /\ UNCHANGED <<passVars, rowVars, dateVars, syncVars, fetchVars>>

InitLoad == LoadInit /\ RowIdle /\ DateIdle /\ SyncIdle /\ FetchIdle

NextLoad ==
    \/ LoadCheckClean
    \/ LoadReadClean
    \/ LoadRunNormalizer
    \/ LoadHalt
    \/ LoadRunEnds
    \/ LoadAgain
    \/ Interrupt
    \/ CheckInput
    \/ OpenInput
    \/ ReadRow
    \/ ReadError
    \/ EndOfInput
    \/ OpenOutput
    \/ WriteHeader
    \/ WriteRow
    \/ Report

SpecLoad == InitLoad /\ [][NextLoad]_vars

(***************************************************************************)
(* sync_jira_to_sheet.py fetch_all_issues                                  *)
(***************************************************************************)

\* The "issues" lists a response can carry.
FetchPages == SeqUpTo({IssueBare}, MaxPage)

\* lines 69-71: start = 0, total = None (-1 stands for None), issues = [].
FetchInit ==
    /\ fPc = "loop"
    /\ asked = <<>>
    /\ start = 0
    /\ total = -1
    /\ fetched = <<>>

\* line 72: while total is None or start < total
LoopCondition == total = -1 \/ start < total

\* lines 72-87: one iteration with a successful response reporting total t and
\* carrying page; when start >= total the loop is left and issues returned.
FetchPage ==
    /\ fPc = "loop"
    /\ LoopCondition
    /\ Len(asked) < MaxRequests
    /\ \E t \in 0..MaxTotal, page \in FetchPages :
          /\ asked' = Append(asked, start)
          /\ total' = t
          /\ fetched' = fetched \o page
          /\ start' = start + Len(page)
          /\ fPc' = IF start + Len(page) >= t THEN "returned" ELSE "loop"
    /\ UNCHANGED <<passVars, rowVars, dateVars, syncVars, loadVars>>

\* lines 73-80: the request is answered with an error status and
\* raise_for_status raises.
FetchError ==
    /\ fPc = "loop"
    /\ LoopCondition
    /\ Len(asked) < MaxRequests
    /\ asked' = Append(asked, start)
    /\ fPc' = "raised"
    /\ UNCHANGED <<start, total, fetched>>
    /\ UNCHANGED <<passVars, rowVars, dateVars, syncVars, loadVars>>

InitFetch == PassIdle /\ RowIdle /\ DateIdle /\ SyncIdle /\ LoadIdle /\ FetchInit

NextFetch == FetchPage \/ FetchError

SpecFetch == InitFetch /\ [][NextFetch]_vars

(***************************************************************************)
(* normalize_row applied to one record of one header                       *)
(***************************************************************************)

RowInit ==
    /\ rHeader \in RowHeaders
    /\ rRow \in RowRecords
    /\ rIdx = <<>>
    /\ rList = <<>>
    /\ rOut = <<>>
    /\ rPc = "header"

\* line 134
RowReadHeaders ==
    /\ rPc = "header"
    /\ rIdx' = read_csv_headers(rHeader)
    /\ rPc' = "pad"
    /\ UNCHANGED <<rHeader, rRow, rList, rOut>>
    /\ UNCHANGED <<passVars, dateVars, syncVars, loadVars, fetchVars>>

\* lines 136-137
RowPad ==
    /\ rPc = "pad"
    /\ rList' = PadRow(rRow, rHeader)
    /\ rPc' = "normalize"
    /\ UNCHANGED <<rHeader, rRow, rIdx, rOut>>
    /\ UNCHANGED <<passVars, dateVars, syncVars, loadVars, fetchVars>>

\* line 138
RowNormalize ==
    /\ rPc = "normalize"
    /\ rOut' = normalize_row(rList, rHeader, rIdx, date_columns)
    /\ rPc' = "done"
    /\ UNCHANGED <<rHeader, rRow, rIdx, rList>>
    /\ UNCHANGED <<passVars, dateVars, syncVars, loadVars, fetchVars>>

InitRow == PassIdle /\ RowInit /\ DateIdle /\ SyncIdle /\ LoadIdle /\ FetchIdle

NextRow == RowReadHeaders \/ RowPad \/ RowNormalize

SpecRow == InitRow /\ [][NextRow]_vars

(***************************************************************************)
(* parse_date applied to one value, and again to its own result            *)
(***************************************************************************)

DateInit ==
    /\ dIn \in DateValues
    /\ dOut = <<>>
    /\ dAgain = <<>>
    /\ dPc = "parse"

DateParse ==
    /\ dPc = "parse"
    /\ dOut' = parse_date(dIn)
    /\ dPc' = "parsed"
    /\ UNCHANGED <<dIn, dAgain>>
    /\ UNCHANGED <<passVars, rowVars, syncVars, loadVars, fetchVars>>

DateParseAgain ==
    /\ dPc = "parsed"
    /\ dAgain' = parse_date(dOut)
    /\ dPc' = "reparsed"
    /\ UNCHANGED <<dIn, dOut>>
    /\ UNCHANGED <<passVars, rowVars, syncVars, loadVars, fetchVars>>

InitDate == PassIdle /\ RowIdle /\ DateInit /\ SyncIdle /\ LoadIdle /\ FetchIdle

NextDate == DateParse \/ DateParseAgain

SpecDate == InitDate /\ [][NextDate]_vars


(***************************************************************************)
(* Properties                                                              *)
(***************************************************************************)

Min(S) == CHOOSE x \in S : \A y \in S : x <= y

\* s is laid out as YYYY-MM-DD HH:MM:SS
IsCanonicalDate(s) ==
    /\ Len(s) = 19
    /\ \A i \in {1, 2, 3, 4, 6, 7, 9, 10, 12, 13, 15, 16, 18, 19} : IsDigit(s[i])
    /\ s[5] = "-" /\ s[8] = "-" /\ s[11] = " " /\ s[14] = ":" /\ s[17] = ":"

\* The row the Normalizer owes record i of the input file.
RowOwed(i) ==
    DictRowCells(normalize_row(PadRow(inFile.rows[i], inFile.header), inFile.header,
                               read_csv_headers(inFile.header), date_columns))

\* C1: every row normalize_row builds, and every row issue_to_row builds, has
\* exactly the 20 canonical keys in the canonical order, and so has every row
\* of the table either producer writes.
C1_FixedSchema ==
    /\ Len(OUTPUT_COLUMNS) = 20
    /\ Cardinality(Range(OUTPUT_COLUMNS)) = 20
    /\ \A i \in 1..Len(rows_out) : Keys(rows_out[i]) = OUTPUT_COLUMNS
    /\ \A i \in 1..Len(sync_rows) : Keys(sync_rows[i]) = OUTPUT_COLUMNS
    /\ pc \in {"write_rows", "done"} /\ outOpened =>
          /\ outFile.header = OUTPUT_COLUMNS
          /\ \A i \in 1..Len(outFile.rows) : Len(outFile.rows[i]) = 20
    /\ sPc = "done" =>
          /\ sheet[1] = OUTPUT_COLUMNS
          /\ \A i \in 2..Len(sheet) : Len(sheet[i]) = 20

\* C1's case: a run over a header with repeated, extra and missing columns
\* has normalized records shorter and longer than the header.
C1_Witness ==
    /\ pc = "done" /\ exitCode = 0 /\ pass = 1
    /\ header = <<"Created", "Extra", "Due date", "Created">>
    /\ Len(rows_out) = 2
    /\ Len(inFile.rows[1]) < Len(header)
    /\ Len(inFile.rows[2]) > Len(header)

\* C2: in every row the Normalizer builds, each of the five date fields is ""
\* or laid out as YYYY-MM-DD HH:MM:SS.
C2_DateFieldsCanonical ==
    \A i \in 1..Len(rows_out) : \A col \in date_columns :
        LET v == DictGet(rows_out[i], col, <<>>)
        IN v = <<>> \/ IsCanonicalDate(v)

\* Whether pattern i of the nine parse_date tries (the seven DATE_FORMATS, then
\* the two formats tried on the first 19 characters) parses v.
PatternParses(i, v) ==
    IF i <= Len(DATE_FORMATS)
    THEN strptime(v, DATE_FORMATS[i]).ok
    ELSE strptime(Prefix(v, 19), FALLBACK_FORMATS[i - Len(DATE_FORMATS)]).ok

Patterns == 1..(Len(DATE_FORMATS) + Len(FALLBACK_FORMATS))

\* What parse_date renders when pattern i is the one that parses v.
Rendering(i, v) ==
    IF i <= Len(DATE_FORMATS)
    THEN strftimeFull(strptime(v, DATE_FORMATS[i]).dt)
    ELSE LET dt == strptime(Prefix(v, 19), FALLBACK_FORMATS[i - Len(DATE_FORMATS)]).dt
         IN IF Contains(v, " ") THEN strftimeFull(dt) ELSE strftimeDate(dt)

\* A value that is not blank and that no pattern parses.
Unparsable(v) ==
    /\ Strip(v) # <<>>
    /\ \A i \in Patterns : ~PatternParses(i, Strip(v))

C4_SprintFirstNonEmpty ==
    rPc = "done" =>
        LET S == {i \in 1..Len(rHeader) :
                     rHeader[i] = "Sprint" /\ i <= Len(rRow) /\ Strip(rRow[i]) # <<>>}
        IN /\ Keys(rOut) = OUTPUT_COLUMNS
           /\ DictGet(rOut, "Sprint", <<"?">>) =
                  IF S = {} THEN <<>> ELSE Strip(rRow[Min(S)])

\* C4's case: three Sprint columns holding "", "S4", " S5 " give "S4".
C4_Witness ==
    /\ rPc = "done"
    /\ rHeader = <<"Sprint", "Sprint", "Sprint">>
    /\ rRow = <<<<>>, sS4, sS5pad>>
    /\ DictGet(rOut, "Sprint", <<"?">>) = sS4

\* C5: a canonical field other than Sprint takes the cell of the first header
\* column of its name (through parse_date when it is a date field), also when
\* that cell is empty and a later one is not, and is "" when no column has
\* its name.
C5_FirstOccurrenceWins ==
    rPc = "done" =>
        \A c \in 1..Len(OUTPUT_COLUMNS) :
            LET col == OUTPUT_COLUMNS[c]
                I == {i \in 1..Len(rHeader) : rHeader[i] = col}
                cell == IF Min(I) <= Len(rRow) THEN rRow[Min(I)] ELSE <<>>
            IN col # "Sprint" =>
                  DictGet(rOut, col, <<"?">>) =
                      IF I = {} THEN <<>>
                      ELSE IF col \in date_columns THEN parse_date(cell) ELSE cell

\* C5's case: of two Status columns the first is empty and the second is not,
\* and the header has no Due date.
C5_Witness ==
    /\ rPc = "done"
    /\ rHeader = <<"Status", "Sprint", "Status">>
    /\ rRow = <<<<>>, sS4, sS4>>
    /\ DictGet(rOut, "Status", <<"?">>) = <<>>
    /\ DictGet(rOut, "Due date", <<"?">>) = <<>>

\* C6: parse_date's result is the rendering under the first of its patterns,
\* in the order it tries them, that parses the value.
C6_FirstPatternWins ==
    dPc # "parse" /\ Strip(dIn) # <<>> =>
        LET v == Strip(dIn)
            M == {i \in Patterns : PatternParses(i, v)}
        IN M # {} => dOut = Rendering(Min(M), v)

\* C6's case: a value two patterns parse, with different renderings.
C6_Witness ==
    /\ dPc = "parsed"
    /\ LET v == Strip(dIn)
           M == {i \in Patterns : PatternParses(i, v)}
       IN /\ Cardinality(M) >= 2
          /\ \E i \in M : Rendering(i, v) # Rendering(Min(M), v)
          /\ dOut = Rendering(Min(M), v)

\* C7: normalizing the clean table again writes the same table.
C7_Idempotent ==
    pass = 2 /\ pc = "done" => exitCode = 0 /\ outFile = table1

\* C8: a successful run writes the 20-column header and then, for each record
\* of the input in order, the normalization of that record, and nothing else.
C8_OneRowPerRecord ==
    pc = "done" /\ exitCode = 0 =>
        /\ outFile.exists
        /\ outFile.header = OUTPUT_COLUMNS
        /\ Len(outFile.rows) = Len(inFile.rows)
        /\ \A i \in 1..Len(inFile.rows) : outFile.rows[i] = RowOwed(i)

\* C8's case: two records whose rows differ, one of them a blank line.
C8_Witness ==
    /\ pc = "done" /\ exitCode = 0 /\ pass = 1
    /\ Len(inFile.rows) = 2
    /\ inFile.rows[1] = <<>>
    /\ RowOwed(1) # RowOwed(2)

BadInput == inFile.state \in {"missing", "unreadable", "empty", "corrupt"}

\* C9: with a missing or unreadable input the run never opens the output path,
\* which stays as it was, and the run goes on until it ends with a diagnostic
\* and status 1.
C9_NoOutputOnBadInput ==
    pass = 1 /\ BadInput =>
        /\ ~outOpened
        /\ outFile = out0
        /\ pc # "done" => MainCanStep
        /\ pc = "done" =>
              /\ exitCode = 1
              /\ diag \in {"Erro: arquivo nao encontrado", "traceback"}

\* C9's case: the input failed after two records were read, and the table an
\* earlier run left is still there.
C9_Witness ==
    /\ pc = "done"
    /\ inFile.state = "corrupt"
    /\ Len(rows_out) = 2
    /\ outFile = OldTable

\* C10: when the input can be read to its end, every record gets its row
\* whatever its number of cells and its date values, and the run goes on until
\* it has written the table and ended with status 0.
C10_NoRowAborts ==
    inFile.state = "ok" =>
        /\ pc = "read" => Len(rows_out) = pos
        /\ pc \in {"open_out", "write_header", "write_rows", "done"} =>
              Len(rows_out) = Len(inFile.rows)
        /\ pc # "done" => MainCanStep
        /\ pc = "done" => exitCode = 0 /\ Len(outFile.rows) = Len(inFile.rows)

\* C10's case: a record shorter than the header whose Created is no date and
\* a record longer than the header, both written.
C10_Witness ==
    /\ pc = "done" /\ exitCode = 0 /\ pass = 1
    /\ inFile.header = <<"Created", "Extra", "Due date", "Created">>
    /\ inFile.rows = << <<sNotADate, sBlank, sNotADate>>, <<<<>>, sS4, sTab, sExtra, sExtra>> >>
    /\ Len(outFile.rows) = 2

\* The normalizer was killed in its write phase and the clean path holds fewer
\* rows than the pass had to write.
PartialOutput == pc = "killed" /\ Len(outFile.rows) < Len(rows_out)

\* C11: after a pass was interrupted while writing, with only the header or a
\* proper prefix of the rows on disk, no load of the clean path by load_data
\* returns that file's content as the table.
C11_PartialNeverLoaded ==
    PartialOutput => ~(lPc = "returned" /\ df = read_csv(outFile))

\* load_data found no clean table and could not obtain one: no raw file, no
\* script, or the normalizer ran to its end and exited with status 1.
NoUsableInput ==
    /\ ~sawClean
    /\ \/ raw_path = 0
       \/ ~scriptExists
       \/ pc = "done" /\ exitCode = 1

\* C12: a load that finds no usable input ends in st.error and st.stop, with
\* the message on the page, and never by an exception leaving load_data.
C12_HaltsWithoutInput ==
    lPc \in {"halted", "raised", "returned"} /\ NoUsableInput =>
        lPc = "halted" /\ shown = "Nenhum dado encontrado" /\ lErr = ""

\* C13: every iteration of the pagination loop either leaves the loop or
\* strictly increases startAt, so that no request is sent twice; and what is
\* returned holds at least total issues.
C13_EachPageAdvances ==
    /\ fPc = "loop" /\ asked # <<>> => start > asked[Len(asked)]
    /\ \A i, j \in 1..Len(asked) : i < j => asked[i] < asked[j]
    /\ fPc = "returned" => Len(fetched) >= total

====
